---- MODULE Spec2Model ----
(***************************************************************************)
(* Market dashboard (src/dashboard.py): one run of the Streamlit script    *)
(* downloads the closing prices of the tickers of the selected asset       *)
(* class one ticker at a time, joins them into one table, forward-fills,   *)
(* drops the all-missing rows, turns prices into a cumulative-return       *)
(* index and draws the re-normalised user selection.  A script run is the  *)
(* sequence SelectClass, Fetch*, Return, (NoData | Preprocess, Normalize,  *)
(* CreateDashboard); Streamlit re-runs the script on every interaction.    *)
(*                                                                         *)
(* Numbers are exact rationals <<numerator, denominator>> in lowest terms; *)
(* the missing value (NaN) is <<0, 0>>.  Prices are positive.              *)
(***************************************************************************)
EXTENDS Integers, Sequences, FiniteSets, TLC

VARIABLES pc, run, tickers, start_date, end_date, i,
          all_data, dl_valid_tickers, dl_failed_tickers, fetch_log,
          data, valid_tickers, failed_tickers,
          clean, cum_returns, data_filtered, fig, st_out, norm_calls, prev

vars == <<pc, run, tickers, start_date, end_date, i,
          all_data, dl_valid_tickers, dl_failed_tickers, fetch_log,
          data, valid_tickers, failed_tickers,
          clean, cum_returns, data_filtered, fig, st_out, norm_calls, prev>>

(* ------------------------------ bounds -------------------------------- *)
NumDates == 4
MaxCols == 2
MaxCells == 4
MaxPrice == 2
MaxTickers == 2
MaxRuns == 2

Dates == 1 .. NumDates

(* --------------------------- configuration ---------------------------- *)
Symbols == {"SPY", "IEF", "GLD"}

SymbolOrder == <<"SPY", "IEF", "GLD">>

asset_names ==
    ("SPY" :> "S&P 500 ETF") @@ ("IEF" :> "10-Year Treasury ETF") @@ ("GLD" :> "Gold ETF")

AssetName(t) == IF t \in DOMAIN asset_names THEN asset_names[t] ELSE t

Range(s) == {s[k] : k \in DOMAIN s}

IsInjective(s) == \A a, b \in DOMAIN s : s[a] = s[b] => a = b

(* the ticker lists an asset class may hold: a symbol set listed in order *)
asset_classes ==
    {s \in UNION {[1 .. n -> Symbols] : n \in 0 .. MaxTickers} : IsInjective(s)}

StartDate == 1

Today == 4

(* ------------------------------ numbers ------------------------------- *)
NaN == <<0, 0>>

isna(v) == v = NaN

Abs(x) == IF x < 0 THEN -x ELSE x

RECURSIVE Gcd(_, _)
Gcd(a, b) == IF b = 0 THEN a ELSE Gcd(b, a % b)

Rat(n, d) == IF d = 0 THEN NaN
             ELSE LET g == Gcd(Abs(n), d) IN <<n \div g, d \div g>>

Num(p) == <<p, 1>>

One == Num(1)

Zero == Num(0)

Div(a, b) == IF isna(a) \/ isna(b) THEN NaN ELSE Rat(a[1] * b[2], a[2] * b[1])

Mul(a, b) == IF isna(a) \/ isna(b) THEN NaN ELSE Rat(a[1] * b[1], a[2] * b[2])

Add(a, b) == IF isna(a) \/ isna(b) THEN NaN
             ELSE Rat(a[1] * b[2] + b[1] * a[2], a[2] * b[2])

Sub(a, b) == IF isna(a) \/ isna(b) THEN NaN
             ELSE Rat(a[1] * b[2] - b[1] * a[2], a[2] * b[2])

Prices == {Num(p) : p \in 1 .. MaxPrice}

Values == Prices \cup {NaN}

(* ------------------------- series and tables -------------------------- *)
(* Series: [name, index, values]; DataFrame: [index, columns, rows],      *)
(* rows[r][c] the value of column c at date index[r].                     *)
EmptySeries == [name |-> "", index |-> <<>>, values |-> <<>>]

EmptyFrame == [index |-> <<>>, columns |-> <<>>, rows |-> <<>>]

SeriesEmpty(s) == Len(s.index) = 0

FrameEmpty(df) == Len(df.index) = 0 \/ Len(df.columns) = 0

RECURSIVE SortedSeq(_)
SortedSeq(S) ==
    IF S = {} THEN <<>>
    ELSE LET m == CHOOSE x \in S : \A y \in S : x <= y
         IN <<m>> \o SortedSeq(S \ {m})

ValueAt(s, d) ==
    IF \E j \in DOMAIN s.index : s.index[j] = d
    THEN s.values[CHOOSE j \in DOMAIN s.index : s.index[j] = d]
    ELSE NaN

Column(df, c) == [r \in 1 .. Len(df.index) |-> df.rows[r][c]]

FromColumns(index, columns, cs) ==
    [index   |-> index,
     columns |-> columns,
     rows    |-> [r \in 1 .. Len(index) |-> [c \in 1 .. Len(columns) |-> cs[c][r]]]]

(* df.loc[mask, cols]: the rows whose position is in keep, in their order, *)
(* restricted to the column positions cpos, in the order of cpos          *)
Loc(df, keep, cpos) ==
    LET kept == SortedSeq(keep)
    IN [index   |-> [k \in 1 .. Len(kept) |-> df.index[kept[k]]],
        columns |-> [c \in 1 .. Len(cpos) |-> df.columns[cpos[c]]],
        rows    |-> [k \in 1 .. Len(kept) |->
                        [c \in 1 .. Len(cpos) |-> df.rows[kept[k]][cpos[c]]]]]

AllCols(df) == [c \in 1 .. Len(df.columns) |-> c]

(* pd.concat(all_data, axis=1): outer join on the dates *)
concat(frames) ==
    LET index == SortedSeq(UNION {Range(frames[k].index) : k \in DOMAIN frames})
    IN [index   |-> index,
        columns |-> [k \in 1 .. Len(frames) |-> frames[k].name],
        rows    |-> [r \in 1 .. Len(index) |->
                        [k \in 1 .. Len(frames) |-> ValueAt(frames[k], index[r])]]]

(* ------------------------- the remote provider ------------------------ *)
(* What the provider holds for each symbol.  A call may also raise or     *)
(* come back empty, whatever the provider holds.                          *)
Market ==
    ("SPY" :> [name |-> "Close", index |-> <<1, 2, 3>>, values |-> <<Num(1), Num(2), Num(1)>>]) @@
    ("IEF" :> [name |-> "Close", index |-> <<2, 3, 4>>, values |-> <<Num(2), NaN, Num(1)>>]) @@
    ("GLD" :> [name |-> "Close", index |-> <<1>>, values |-> <<NaN>>])

InRange(s, start, end) ==
    LET kept == SortedSeq({j \in DOMAIN s.index : start <= s.index[j] /\ s.index[j] < end})
    IN [name   |-> s.name,
        index  |-> [k \in 1 .. Len(kept) |-> s.index[kept[k]]],
        values |-> [k \in 1 .. Len(kept) |-> s.values[kept[k]]]]

(* the responses of yf.download(t, start, end)["Close"] *)
yf_download(t, start, end) ==
    {[raised |-> TRUE, close |-> EmptySeries],
     [raised |-> FALSE, close |-> EmptySeries],
     [raised |-> FALSE, close |-> InRange(Market[t], start, end)]}

Outcome(resp) ==
    IF resp.raised THEN "exception"
    ELSE IF SeriesEmpty(resp.close) THEN "empty" ELSE "data"

(* ---------------------------- download_data --------------------------- *)
(* the locals of download_data: loc = [all_data, valid, failed] *)
OnData(loc, t, df) ==
    [all_data |-> Append(loc.all_data, [df EXCEPT !.name = t]),
     valid    |-> Append(loc.valid, t),
     failed   |-> loc.failed]

(* mutant: an empty result is not recorded *)
OnEmptyDropped(loc, t) == loc

OnEmpty(loc, t) ==
    [all_data |-> loc.all_data, valid |-> loc.valid, failed |-> Append(loc.failed, t)]

(* mutant: a failure is put in front of the earlier failures *)
OnExceptionFront(loc, t) ==
    [all_data |-> loc.all_data, valid |-> loc.valid, failed |-> <<t>> \o loc.failed]

OnException(loc, t) ==
    [all_data |-> loc.all_data, valid |-> loc.valid, failed |-> Append(loc.failed, t)]

(* one iteration of the loop over tickers *)
LoopBody(loc, t, resp) ==
    IF resp.raised THEN OnException(loc, t)
    ELSE IF ~SeriesEmpty(resp.close) THEN OnData(loc, t, resp.close)
    ELSE OnEmpty(loc, t)

(* mutant: the empty return forgets the failed symbols *)
ReturnValueNoFailed(loc) ==
    IF loc.all_data # <<>>
    THEN [data |-> concat(loc.all_data), valid |-> loc.valid, failed |-> loc.failed]
    ELSE [data |-> EmptyFrame, valid |-> <<>>, failed |-> <<>>]

ReturnValue(loc) ==
    IF loc.all_data # <<>>
    THEN [data |-> concat(loc.all_data), valid |-> loc.valid, failed |-> loc.failed]
    ELSE [data |-> EmptyFrame, valid |-> <<>>, failed |-> loc.failed]

(* ------------------------------ preprocess ---------------------------- *)
RECURSIVE ffillCol(_)
ffillCol(s) ==
    IF Len(s) <= 1 THEN s
    ELSE LET f == ffillCol(SubSeq(s, 1, Len(s) - 1))
             x == s[Len(s)]
         IN Append(f, IF isna(x) THEN f[Len(f)] ELSE x)

(* mutant: the fill runs backward, from the next known value *)
bfill(df) ==
    FromColumns(df.index, df.columns,
                [c \in 1 .. Len(df.columns) |->
                    [r \in 1 .. Len(df.index) |->
                        LET later == {j \in r .. Len(df.index) : ~isna(df.rows[j][c])}
                        IN IF later = {} THEN NaN
                           ELSE df.rows[CHOOSE j \in later : \A x \in later : j <= x][c]]])

ffill(df) ==
    FromColumns(df.index, df.columns,
                [c \in 1 .. Len(df.columns) |-> ffillCol(Column(df, c))])

(* mutant: rows with any missing value are dropped *)
dropna_any(df) ==
    Loc(df,
        {r \in 1 .. Len(df.index) : \A c \in 1 .. Len(df.columns) : ~isna(df.rows[r][c])},
        AllCols(df))

dropna_all(df) ==
    Loc(df,
        {r \in 1 .. Len(df.index) : \E c \in 1 .. Len(df.columns) : ~isna(df.rows[r][c])},
        AllCols(df))

preprocess(df) == dropna_all(ffill(df))

(* ------------------------------ normalize ----------------------------- *)
(* pct_change pads the missing values forward and divides each value by   *)
(* the one before it; the first row has no predecessor                    *)
pct_changeCol(s) ==
    LET p == ffillCol(s)
    IN [r \in 1 .. Len(s) |-> IF r = 1 THEN NaN ELSE Sub(Div(p[r], p[r - 1]), One)]

(* mutant: the missing returns are left missing *)
fillnaColSkipped(s, v) == s

fillnaCol(s, v) == [r \in 1 .. Len(s) |-> IF isna(s[r]) THEN v ELSE s[r]]

(* cumprod skips the missing values: they stay missing and leave the product alone *)
RECURSIVE cumprodCol(_)
cumprodCol(s) ==
    IF s = <<>> THEN <<>>
    ELSE LET n    == Len(s)
             head == cumprodCol(SubSeq(s, 1, n - 1))
             seen == {k \in 1 .. n - 1 : ~isna(s[k])}
             acc  == IF seen = {} THEN One
                     ELSE head[CHOOSE k \in seen : \A j \in seen : j <= k]
         IN Append(head, IF isna(s[n]) THEN NaN ELSE Mul(acc, s[n]))

OnePlus(s) == [r \in 1 .. Len(s) |-> Add(One, s[r])]

normalizeCol(s) == cumprodCol(OnePlus(fillnaCol(pct_changeCol(s), Zero)))

normalize(prices) ==
    FromColumns(prices.index, prices.columns,
                [c \in 1 .. Len(prices.columns) |-> normalizeCol(Column(prices, c))])

(* --------------------------------- plot ------------------------------- *)
(* reset_index().melt(...): one (Date, Ticker, Price) record per cell,    *)
(* column after column; the figure is drawn from these records            *)
plot(df) ==
    LET n == Len(df.index)
    IN [k \in 1 .. n * Len(df.columns) |->
          LET c == ((k - 1) \div n) + 1
              r == ((k - 1) % n) + 1
          IN [Date |-> df.index[r], Ticker |-> df.columns[c], Price |-> df.rows[r][c]]]

(* --------------------------- create_dashboard ------------------------- *)
(* the sidebar widgets: any selection of the offered columns, and one or  *)
(* two picked dates (one while the user is still choosing the range)      *)
Multiselect(options) ==
    {c \in UNION {[1 .. n -> Range(options)] : n \in 0 .. Len(options)} : IsInjective(c)}

DateInput == UNION {[1 .. n -> Dates] : n \in 1 .. 2}

ColPos(df, name) == CHOOSE c \in 1 .. Len(df.columns) : df.columns[c] = name

Filter(df, cols, date_range) ==
    LET min_date == df.index[1]
        max_date == df.index[Len(df.index)]
        start    == IF Len(date_range) = 2 THEN date_range[1] ELSE min_date
        end      == IF Len(date_range) = 2 THEN date_range[2] ELSE max_date
    IN Loc(df,
           {r \in 1 .. Len(df.index) : df.index[r] >= start /\ df.index[r] <= end},
           [c \in 1 .. Len(cols) |-> ColPos(df, cols[c])])

(* mutant: the filtered table is plotted as it is *)
FigureRaw(filtered) == plot(filtered)

Figure(filtered) == plot(normalize(filtered))

(* -------------------------------- state ------------------------------- *)
NoPrev == <<>>

SyncResult == [tickers |-> tickers, end_date |-> end_date, series |-> data,
               valid_symbols |-> valid_tickers, failed_symbols |-> failed_tickers,
               fetches |-> Len(fetch_log)]

Init ==
    /\ pc = "select" /\ run = 1
    /\ tickers = <<>> /\ start_date = StartDate /\ end_date = Today /\ i = 1
    /\ all_data = <<>> /\ dl_valid_tickers = <<>> /\ dl_failed_tickers = <<>>
    /\ fetch_log = <<>>
    /\ data = EmptyFrame /\ valid_tickers = <<>> /\ failed_tickers = <<>>
    /\ clean = EmptyFrame /\ cum_returns = EmptyFrame /\ data_filtered = EmptyFrame
    /\ fig = <<>> /\ st_out = <<>> /\ norm_calls = 0
    /\ prev = NoPrev

(* lines 130-141: the dates and the tickers of the chosen asset class *)
SelectClass ==
    /\ pc = "select"
    /\ \E selected \in asset_classes : tickers' = selected
    /\ start_date' = StartDate /\ end_date' = Today
    /\ i' = 1 /\ pc' = "download"
    /\ UNCHANGED <<run, all_data, dl_valid_tickers, dl_failed_tickers, fetch_log,
                   data, valid_tickers, failed_tickers, clean, cum_returns,
                   data_filtered, fig, st_out, norm_calls, prev>>

(* lines 19-29: one iteration of the loop, with whatever the provider answers *)
Fetch ==
    /\ pc = "download" /\ i <= Len(tickers)
    /\ \E resp \in yf_download(tickers[i], start_date, end_date) :
          LET loc == LoopBody([all_data |-> all_data, valid |-> dl_valid_tickers,
                               failed |-> dl_failed_tickers], tickers[i], resp)
          IN /\ all_data' = loc.all_data
             /\ dl_valid_tickers' = loc.valid
             /\ dl_failed_tickers' = loc.failed
             /\ fetch_log' = Append(fetch_log,
                                    [symbols |-> <<tickers[i]>>, outcome |-> Outcome(resp)])
    /\ i' = i + 1
    /\ UNCHANGED <<pc, run, tickers, start_date, end_date, data, valid_tickers,
                   failed_tickers, clean, cum_returns, data_filtered, fig, st_out,
                   norm_calls, prev>>

(* lines 31-35 and 142: the loop is over, download_data returns *)
Return ==
    /\ pc = "download" /\ i > Len(tickers)
    /\ LET ret == ReturnValue([all_data |-> all_data, valid |-> dl_valid_tickers,
                               failed |-> dl_failed_tickers])
       IN /\ data' = ret.data
          /\ valid_tickers' = ret.valid
          /\ failed_tickers' = ret.failed
    /\ pc' = "main"
    /\ UNCHANGED <<run, tickers, start_date, end_date, i, all_data, dl_valid_tickers,
                   dl_failed_tickers, fetch_log, clean, cum_returns, data_filtered,
                   fig, st_out, norm_calls, prev>>

(* lines 143-144 *)
NoData ==
    /\ pc = "main" /\ FrameEmpty(data)
    /\ st_out' = Append(st_out, "error")
    /\ pc' = "done"
    /\ UNCHANGED <<run, tickers, start_date, end_date, i, all_data, dl_valid_tickers,
                   dl_failed_tickers, fetch_log, data, valid_tickers, failed_tickers,
                   clean, cum_returns, data_filtered, fig, norm_calls, prev>>

(* lines 146-147: the columns take their display names, then preprocess *)
Preprocess ==
    /\ pc = "main" /\ ~FrameEmpty(data)
    /\ data' = [data EXCEPT !.columns = [c \in 1 .. Len(valid_tickers) |->
                                            AssetName(valid_tickers[c])]]
    /\ clean' = preprocess(data')
    /\ pc' = "normalize"
    /\ UNCHANGED <<run, tickers, start_date, end_date, i, all_data, dl_valid_tickers,
                   dl_failed_tickers, fetch_log, valid_tickers, failed_tickers,
                   cum_returns, data_filtered, fig, st_out, norm_calls, prev>>

(* line 148 *)
Normalize ==
    /\ pc = "normalize"
    /\ cum_returns' = normalize(clean)
    /\ norm_calls' = norm_calls + 1
    /\ pc' = "dashboard"
    /\ UNCHANGED <<run, tickers, start_date, end_date, i, all_data, dl_valid_tickers,
                   dl_failed_tickers, fetch_log, data, valid_tickers, failed_tickers,
                   clean, data_filtered, fig, st_out, prev>>

(* lines 149 and 67-97 *)
CreateDashboard ==
    /\ pc = "dashboard"
    /\ IF FrameEmpty(cum_returns)
       THEN /\ st_out' = Append(st_out, "error")
            /\ UNCHANGED <<data_filtered, fig, norm_calls>>
       ELSE \E cols \in Multiselect(cum_returns.columns), date_range \in DateInput :
               LET filtered == Filter(cum_returns, cols, date_range)
               IN /\ data_filtered' = filtered
                  /\ IF FrameEmpty(filtered)
                     THEN /\ st_out' = Append(st_out, "warning")
                          /\ UNCHANGED <<fig, norm_calls>>
                     ELSE /\ fig' = <<Figure(filtered)>>
                          /\ norm_calls' = norm_calls + 1
                          /\ st_out' = st_out \o <<"title", "plotly_chart">>
    /\ pc' = "done"
    /\ UNCHANGED <<run, tickers, start_date, end_date, i, all_data, dl_valid_tickers,
                   dl_failed_tickers, fetch_log, data, valid_tickers, failed_tickers,
                   clean, cum_returns, prev>>

(* Streamlit runs the script again from the top on the next interaction;  *)
(* nothing of the finished run is kept by the script                      *)
Rerun ==
    /\ pc = "done" /\ run < MaxRuns
    /\ prev' = <<SyncResult>>
    /\ run' = run + 1
    /\ pc' = "select"
    /\ tickers' = <<>> /\ start_date' = StartDate /\ end_date' = Today /\ i' = 1
    /\ all_data' = <<>> /\ dl_valid_tickers' = <<>> /\ dl_failed_tickers' = <<>>
    /\ fetch_log' = <<>>
    /\ data' = EmptyFrame /\ valid_tickers' = <<>> /\ failed_tickers' = <<>>
    /\ clean' = EmptyFrame /\ cum_returns' = EmptyFrame /\ data_filtered' = EmptyFrame
    /\ fig' = <<>> /\ st_out' = <<>> /\ norm_calls' = 0

Next == SelectClass \/ Fetch \/ Return \/ NoData \/ Preprocess \/ Normalize \/ CreateDashboard

Spec == Init /\ [][Next]_vars

NextRerun == Next \/ Rerun

SpecRerun == Init /\ [][NextRerun]_vars

(* ------------- the transforms on every table within the bounds -------- *)
(* a downloaded table: some valid tickers, the dates 1..n, any values     *)
InitT ==
    /\ pc = "main" /\ run = 1
    /\ \E n \in 1 .. NumDates, m \in 1 .. MaxCols :
          /\ m <= Len(SymbolOrder) /\ n * m <= MaxCells
          /\ \E rows \in [1 .. n -> [1 .. m -> Values]] :
                data = [index |-> [r \in 1 .. n |-> r],
                        columns |-> SubSeq(SymbolOrder, 1, m),
                        rows |-> rows]
    /\ tickers = data.columns /\ valid_tickers = data.columns /\ failed_tickers = <<>>
    /\ start_date = StartDate /\ end_date = Today /\ i = Len(tickers) + 1
    /\ all_data = <<>> /\ dl_valid_tickers = valid_tickers /\ dl_failed_tickers = <<>>
    /\ fetch_log = [k \in 1 .. Len(tickers) |->
                       [symbols |-> <<tickers[k]>>, outcome |-> "data"]]
    /\ clean = EmptyFrame /\ cum_returns = EmptyFrame /\ data_filtered = EmptyFrame
    /\ fig = <<>> /\ st_out = <<>> /\ norm_calls = 0
    /\ prev = NoPrev

NextT == Preprocess \/ Normalize \/ CreateDashboard

SpecT == InitT /\ [][NextT]_vars

(* ============================== claims ================================ *)
AfterDownload == pc \in {"main", "normalize", "dashboard", "done"}

Count(x, s) == Cardinality({k \in DOMAIN s : s[k] = x})

(* the requested symbols whose fetch gave data (or did not), in request order *)
Requested(gave_data) ==
    LET ks == SortedSeq({k \in DOMAIN fetch_log : (fetch_log[k].outcome = "data") = gave_data})
    IN [j \in 1 .. Len(ks) |-> tickers[ks[j]]]

AllFailed == \A k \in DOMAIN fetch_log : fetch_log[k].outcome # "data"

(* C1: once download_data has returned, valid_tickers and failed_tickers  *)
(* are disjoint and together hold every requested symbol exactly once,    *)
(* whatever each fetch gave (data, empty result, exception).              *)
C1_Partition ==
    AfterDownload =>
        /\ Range(valid_tickers) \cap Range(failed_tickers) = {}
        /\ \A t \in Symbols :
              Count(t, valid_tickers \o failed_tickers) = (IF t \in Range(tickers) THEN 1 ELSE 0)

C1_Witness ==
    /\ pc = "main" /\ Len(tickers) = 2
    /\ fetch_log[1].outcome = "empty" /\ fetch_log[2].outcome = "data"

(* C2: a failed fetch never stops the loop: every requested symbol is     *)
(* fetched, in request order, the failures go to failed_tickers and the   *)
(* successes to valid_tickers, each list in request order.                *)
C2_Independent ==
    /\ pc = "download" => Len(fetch_log) = i - 1
    /\ AfterDownload =>
        /\ [k \in 1 .. Len(fetch_log) |-> fetch_log[k].symbols] =
               [k \in 1 .. Len(tickers) |-> <<tickers[k]>>]
        /\ valid_tickers = Requested(TRUE)
        /\ failed_tickers = Requested(FALSE)

C2_Witness ==
    /\ pc = "main" /\ Len(tickers) = 2
    /\ fetch_log[1].outcome = "exception" /\ fetch_log[2].outcome = "empty"
    /\ failed_tickers = tickers

(* C3: when every fetch failed, or no symbol was requested, download_data *)
(* returns the empty table, no valid symbol and all requested symbols as  *)
(* failed; the run ends with the "no data" message and no chart.          *)
C3_AllFailed ==
    (AfterDownload /\ AllFailed) =>
        /\ data = EmptyFrame
        /\ valid_tickers = <<>>
        /\ failed_tickers = tickers
        /\ pc \in {"main", "done"}
        /\ pc = "done" => (st_out = <<"error">> /\ fig = <<>>)

C3_Witness ==
    /\ pc = "done" /\ Len(tickers) = 2 /\ AllFailed
    /\ fetch_log[1].outcome = "empty" /\ fetch_log[2].outcome = "exception"

C3_WitnessEmptyRequest == pc = "done" /\ tickers = <<>> /\ fetch_log = <<>>

(* C4: a second run with the same symbols and the same as_of_date returns *)
(* the SyncResult of the first run and calls the remote fetcher zero      *)
(* times.                                                                 *)
C4_Idempotent ==
    (pc = "main" /\ prev # NoPrev /\ prev[1].tickers = tickers
                 /\ prev[1].end_date = end_date) =>
        /\ fetch_log = <<>>
        /\ prev[1].series = data
        /\ prev[1].valid_symbols = valid_tickers
        /\ prev[1].failed_symbols = failed_tickers

(* C5: a value missing in the input of normalize is missing in its output *)
C5_MissingPropagates ==
    pc \in {"dashboard", "done"} =>
        \A r \in 1 .. Len(clean.index), c \in 1 .. Len(clean.columns) :
            isna(clean.rows[r][c]) => isna(cum_returns.rows[r][c])

(* C6: the normalized index of a non-empty preprocessed table is exactly  *)
(* 1 at the first retained date for every symbol with a value there.      *)
C6_Anchor ==
    (pc \in {"dashboard", "done"} /\ ~FrameEmpty(clean)) =>
        /\ cum_returns.index = clean.index
        /\ \A c \in 1 .. Len(clean.columns) :
              ~isna(clean.rows[1][c]) => cum_returns.rows[1][c] = One

C6_Witness ==
    /\ pc = "dashboard" /\ Len(clean.index) >= 2
    /\ clean.rows[1][1] = Num(2) /\ clean.rows[2][1] = Num(1)
    /\ cum_returns.rows[2][1] = Rat(1, 2)

(* the position in the preprocess input of the date of output row k *)
InputRow(k) == CHOOSE r \in 1 .. Len(data.index) : data.index[r] = clean.index[k]

Earlier(r, c) == {j \in 1 .. r - 1 : ~isna(data.rows[j][c])}

Latest(S) == CHOOSE j \in S : \A x \in S : x <= j

(* C7: preprocess forward-fills each column on its own: a value present   *)
(* in the input is unchanged, a missing one becomes the symbol's latest   *)
(* earlier value, and stays missing when there is none.                   *)
C7_ForwardFill ==
    pc \in {"normalize", "dashboard", "done"} =>
        /\ clean.columns = data.columns
        /\ \A k \in 1 .. Len(clean.index) :
              /\ \E r \in 1 .. Len(data.index) : data.index[r] = clean.index[k]
              /\ \A c \in 1 .. Len(data.columns) :
                    LET r == InputRow(k)
                    IN IF ~isna(data.rows[r][c])
                       THEN clean.rows[k][c] = data.rows[r][c]
                       ELSE IF Earlier(r, c) = {}
                            THEN isna(clean.rows[k][c])
                            ELSE clean.rows[k][c] = data.rows[Latest(Earlier(r, c))][c]

C7_Witness ==
    /\ pc = "normalize"
    /\ Column(data, 1) = <<Num(1), NaN, NaN, Num(2)>>
    /\ Column(clean, 1) = <<Num(1), Num(1), Num(1), Num(2)>>

(* C8: the dates of the preprocess output are the input dates at which at *)
(* least one symbol has a value after the forward-fill, in input order;   *)
(* rows with a value are kept though other symbols are missing; the       *)
(* columns are the input columns.                                         *)
C8_RowElimination ==
    pc \in {"normalize", "dashboard", "done"} =>
        LET resolved == {r \in 1 .. Len(data.index) :
                            \E c \in 1 .. Len(data.columns) :
                                \E j \in 1 .. r : ~isna(data.rows[j][c])}
            ks == SortedSeq(resolved)
        IN /\ clean.index = [k \in 1 .. Len(ks) |-> data.index[ks[k]]]
           /\ clean.columns = data.columns
           /\ \A k \in 1 .. Len(clean.index) : Len(clean.rows[k]) = Len(data.columns)

C8_Witness ==
    /\ pc = "normalize" /\ Len(data.index) = 2 /\ Len(data.columns) = 2
    /\ data.rows[1] = <<NaN, NaN>> /\ data.rows[2] = <<NaN, Num(2)>>
    /\ clean.index = <<2>> /\ isna(clean.rows[1][1])

(* C9: one sync cycle calls the remote fetcher at most once, for the      *)
(* whole requested symbol set.                                            *)
C9_OneBatchedCall ==
    AfterDownload =>
        /\ Len(fetch_log) <= 1
        /\ \A k \in DOMAIN fetch_log : fetch_log[k].symbols = tickers

FirstDatePrices(col) ==
    {rec.Price : rec \in {x \in Range(fig[1]) :
                              x.Ticker = col /\ x.Date = data_filtered.index[1]}}

(* C10: create_dashboard normalizes the filtered table again: a drawn     *)
(* chart shows every selected symbol at 1 on the first date of the        *)
(* window; an empty filtered table is neither normalized nor plotted.     *)
C10_Reanchored ==
    pc = "done" =>
        /\ ~FrameEmpty(data_filtered) =>
              /\ fig # <<>>
              /\ norm_calls = 2
              /\ st_out = <<"title", "plotly_chart">>
              /\ \A c \in 1 .. Len(data_filtered.columns) :
                    FirstDatePrices(data_filtered.columns[c]) = {One}
        /\ FrameEmpty(data_filtered) =>
              /\ fig = <<>>
              /\ norm_calls <= 1
              /\ st_out \in {<<"error">>, <<"warning">>}

C10_Witness ==
    /\ pc = "done" /\ fig # <<>>
    /\ data_filtered.index[1] > cum_returns.index[1]
    /\ Len(data_filtered.index) >= 2
    /\ \E c \in 1 .. Len(data_filtered.columns) : data_filtered.rows[1][c] = Num(2)

C10_WitnessEmptyWindow ==
    pc = "done" /\ ~FrameEmpty(cum_returns) /\ FrameEmpty(data_filtered) /\ st_out = <<"warning">>
====
